---- MODULE Spec2Model ----
(***************************************************************************)
(* A model of the blog's build: the Eleventy configuration (.eleventy.js), *)
(* the template functions of src/_includes and the layouts built from them.*)
(*                                                                         *)
(* A JavaScript string is modelled as a sequence of tokens, so that a      *)
(* template literal is the concatenation of its literal chunks and of its  *)
(* interpolated values, and "the page contains x" is "x is a token of the  *)
(* page".  A token is a record [s, n]: s is the text of a string token, n  *)
(* the numbers of a formatted date or year (empty for a string token).     *)
(***************************************************************************)
EXTENDS Integers, Sequences, FiniteSets, TLC

\* ------------------------------------------------------------------ bounds
\* Longest collections.post the model builds.
MaxPosts == 2

\* ------------------------------------------------------------------ tokens
\* The value of a property that is absent from the data (JavaScript's undefined).
Undefined == "\\undefined"

Tok(s) == [s |-> s, n |-> <<>>]
NumTok(kind, n) == [s |-> kind, n |-> n]
WS == Tok("\n")

\* `${v}` in a template literal: String(v); String(undefined) is "undefined".
Str(v) == IF v = Undefined THEN <<Tok("undefined")>> ELSE <<Tok(v)>>

\* Array.prototype.join(sep) over an array of strings.
RECURSIVE JoinFirst(_, _, _)
JoinFirst(ss, sep, n) ==
  IF n = 0 THEN <<>>
  ELSE IF n = 1 THEN ss[1]
  ELSE JoinFirst(ss, sep, n - 1) \o sep \o ss[n]

Join(ss, sep) == JoinFirst(ss, sep, Cardinality(DOMAIN ss))

Count(str, tok) == Cardinality({i \in DOMAIN str : str[i] = tok})

\* The result of a call: a returned string, or a thrown exception.
Return(str) == [err |-> "none", out |-> str]
Throw(e) == [err |-> e, out |-> <<>>]

\* An expression that uses what a call returned: the call's exception if it
\* threw, and the expression's result otherwise.
Then(r, result) == IF r.err # "none" THEN Throw(r.err) ELSE result

\* ------------------------------------------------------------------- dates
\* A Date is [day, ms]: whole days since 1970-01-01 and milliseconds into the
\* day (time zone UTC).  Civil date of a day count (proleptic Gregorian).
CivilFromDays(z) ==
  LET zz == z + 719468
      era == zz \div 146097
      doe == zz - era * 146097
      yoe == (doe - doe \div 1460 + doe \div 36524 - doe \div 146096) \div 365
      doy == doe - (365 * yoe + yoe \div 4 - yoe \div 100)
      mp == (5 * doy + 2) \div 153
      d == doy - (153 * mp + 2) \div 5 + 1
      m == IF mp < 10 THEN mp + 3 ELSE mp - 9
      y == yoe + era * 400 + (IF m <= 2 THEN 1 ELSE 0)
  IN [year |-> y, month |-> m, date |-> d, weekday |-> (z + 4) % 7]

\* Date.prototype.toDateString(): "Www Mmm DD YYYY", here the token of the
\* weekday (0 = Sun), the month (1 = Jan), the day of the month and the year.
toDateString(date) ==
  LET c == CivilFromDays(date.day)
  IN <<NumTok("DateString", <<c.weekday, c.month, c.date, c.year>>)>>

\* The day count of the clock in place of its year.
getClockDay(now) == <<NumTok("Number", <<now.day>>)>>

\* new Date().getFullYear() at clock value now.
getFullYear(now) == <<NumTok("Number", <<CivilFromDays(now.day).year>>)>>

\* b.date - a.date in Posts' comparator, as its sign; a Date and undefined
\* subtract to NaN, which Array.prototype.sort takes as +0.
UndefinedDate == [undefined |-> TRUE]

DateDiff(b, a) ==
  IF a = UndefinedDate \/ b = UndefinedDate THEN 0
  ELSE IF b.day # a.day THEN (IF b.day > a.day THEN 1 ELSE -1)
  ELSE IF b.ms # a.ms THEN (IF b.ms > a.ms THEN 1 ELSE -1)
  ELSE 0

\* ------------------------------------------------------ template functions
\* PostBody with the date also put in front of the content.
PostBodyDateTwice(title, date, content, inContainer) ==
  IF date = UndefinedDate THEN Throw("TypeError")
  ELSE Return(
    <<WS, Tok("<article class=\"")>>
    \o (IF inContainer THEN <<>> ELSE <<Tok("content")>>)
    \o <<Tok("\">"), WS, Tok("<header>"), WS, Tok("<h1 style=\"margin-bottom: 0;\">")>>
    \o title
    \o <<Tok("</h1>"), WS, Tok("<h5 style=\"margin-top: 0;\" class=\"lt-text\">")>>
    \o toDateString(date)
    \o <<Tok("</h5>"), WS, Tok("</header>"), WS, Tok("<section>"), WS>>
    \o toDateString(date) \o content
    \o <<WS, Tok("</section>"), WS, Tok("</article>"), WS>>)

\* PostBody({ title, date, content, inContainer = false }); title and content
\* are strings. date.toDateString() on an undefined date is a TypeError.
PostBody(title, date, content, inContainer) ==
  IF date = UndefinedDate THEN Throw("TypeError")
  ELSE Return(
    <<WS, Tok("<article class=\"")>>
    \o (IF inContainer THEN <<>> ELSE <<Tok("content")>>)
    \o <<Tok("\">"), WS, Tok("<header>"), WS, Tok("<h1 style=\"margin-bottom: 0;\">")>>
    \o title
    \o <<Tok("</h1>"), WS, Tok("<h5 style=\"margin-top: 0;\" class=\"lt-text\">")>>
    \o toDateString(date)
    \o <<Tok("</h5>"), WS, Tok("</header>"), WS, Tok("<section>"), WS>>
    \o content
    \o <<WS, Tok("</section>"), WS, Tok("</article>"), WS>>)

\* navbar({ brand, links }): links.map(...) is interpolated as an array, that
\* is joined with ",".
navbar(brand, links) ==
  Return(
    <<Tok("<nav class=\"navbar\">"), WS, Tok("<h3><a href=\"/#about-me\">")>>
    \o Str(brand)
    \o <<Tok("</a></h3>"), WS, Tok("<div class=\"navbar-links\">"), WS>>
    \o Join([i \in DOMAIN links |->
               <<Tok("<a href=\"")>> \o Str(links[i].url) \o <<Tok("\">")>>
               \o Str(links[i].text) \o <<Tok("</a>")>>],
            <<Tok(",")>>)
    \o <<WS, Tok("</div>"), WS, Tok("</nav>")>>)

\* JumboTron({ title, subtitle })
JumboTron(title, subtitle) ==
  Return(
    <<Tok("<header class=\"jumbo\">"), WS, Tok("<h1>")>> \o Str(title)
    \o <<Tok("</h1>"), WS, Tok("<p>")>> \o Str(subtitle)
    \o <<Tok("</p>"), WS, Tok("</header>")>>)

\* The footer partial: function({ includeHomeLink = false }).
footer(includeHomeLink, now) ==
  Return(
    <<WS, Tok("<footer class=\"container\" style=\"height: 4rem;\">"), WS,
      Tok("<div class=\"content\" style=\"display: flex; justify-content: "),
      Tok(IF includeHomeLink THEN "space-between" ELSE "flex-end"),
      Tok("; align-items: baseline;\">"), WS>>
    \o (IF includeHomeLink THEN <<Tok("<a href=\"/\">Back Home</a>")>> ELSE <<>>)
    \o <<WS, Tok("<h5>&copy; ")>> \o getFullYear(now)
    \o <<Tok(" Benjamin Morin</h5>"), WS, Tok("</div>"), WS, Tok("</footer>"), WS>>)

\* The style sheet both base layouts inline, rule by rule.
STYLE ==
  <<Tok("body { ... }"), WS, WS, Tok("h1,h2,h3,h4,h5,h6 { ... }"), WS,
    Tok("p { margin: 1rem 0;}"), WS, Tok("pre { ... }"), WS, Tok("code { ... }"),
    WS, WS, Tok("a { color: #0083C1; }"), WS, Tok("a:hover { ... }"), WS,
    Tok("a:active { color:#F98E2C  }"), WS, Tok("a:visited { color: #CE112D }")>>

IsWhitespace(tok) == tok = WS
IsComment(tok) == tok = Tok("<!-- Global site tag (gtag.js) - Google Analytics -->")

\* The cssmin filter: new CleanCSS({}).minify(code).styles drops the white
\* space between the rules.
cssmin(code) == SelectSeq(code, LAMBDA tok : ~IsWhitespace(tok))

\* this.cssmin(STYLE): `this` carries the filters the configuration added;
\* calling a filter that was never added is a TypeError.
CallCssmin(this, code) ==
  IF "cssmin" \in this.filters THEN Return(cssmin(code)) ELSE Throw("TypeError")

\* The head of both base layouts, from the doctype to <body>.
BaseHead(title, style, prism) ==
  <<Tok("<!DOCTYPE html>"), WS, Tok("<html lang=\"en\">"), WS, Tok("<head>"), WS,
    Tok("<meta charset=\"utf-8\" />"), WS,
    Tok("<meta name=\"viewport\" content=\"width=device-width, initial-scale=1\" />"),
    WS, Tok("<title>")>>
  \o title
  \o <<Tok("</title>"), WS, WS, Tok("<link href=\"https://fonts.googleapis.com/...\" rel=\"stylesheet\">"),
       WS, Tok("<link rel=\"stylesheet\" href=\".../font-awesome.min.css\" />"), WS,
       Tok("<style>"), WS>>
  \o style
  \o <<WS, Tok("</style>"), WS, Tok("<link rel=\"stylesheet\" href=\"/assets/css/main.css\" />"), WS>>
  \o (IF prism THEN <<Tok("<link rel=\"stylesheet\" href=\"/assets/css/prism-theme.css\" />"), WS>>
      ELSE <<>>)
  \o <<Tok("<!-- Global site tag (gtag.js) - Google Analytics -->"), WS,
       Tok("<script async src=\"https://www.googletagmanager.com/gtag/js?id=UA-178156821-2\"></script>"),
       WS, Tok("<script>...gtag('config', 'UA-178156821-2');</script>"), WS,
       Tok("</head>"), WS, Tok("<body>"), WS>>

\* A parameter default: `title = ""` takes the default when title is undefined.
Default(v, d) == IF v = Undefined THEN d ELSE <<Tok(v)>>

\* base of base-html.js: function ({ head = "", body = "", title = "" }); the
\* footer is fixed text and includeHomeLink is not a parameter.
base_html(this, title, body, includeHomeLink, now) ==
  Then(CallCssmin(this, STYLE),
     Return(
       BaseHead(Default(title, <<>>), CallCssmin(this, STYLE).out, FALSE)
       \o body
       \o <<WS, Tok("<footer class=\"container\" style=\"height: 4rem;\">"), WS,
            Tok("<div class=\"content\" style=\"display: flex; justify-content: "),
            Tok("flex-end"), Tok(";\">"),
            WS, Tok("<h5>&copy; 2020 Benjamin Morin</h5>"), WS, Tok("</div>"), WS,
            Tok("</footer>"), WS, Tok("</body>"), WS, Tok("</html>")>>))

\* base with the footer put in front of the body.
baseFooterFirst(this, title, body, includeHomeLink, now) ==
  Then(CallCssmin(this, STYLE),
     Return(
       BaseHead(Default(title, <<>>), CallCssmin(this, STYLE).out, TRUE)
       \o <<WS, Tok("<footer class=\"container\" style=\"height: 4rem;\">"), WS,
            Tok("<div class=\"content\" style=\"display: flex; justify-content: "),
            Tok(IF includeHomeLink THEN "space-between" ELSE "flex-end"),
            Tok("; align-items: baseline;\">"), WS>>
       \o (IF includeHomeLink THEN <<Tok("<a href=\"/\">Back Home</a>")>> ELSE <<>>)
       \o <<WS, Tok("<h5>&copy; ")>> \o getFullYear(now)
       \o <<Tok(" Benjamin Morin</h5>"), WS, Tok("</div>"), WS, Tok("</footer>"), WS>>
       \o body
       \o <<Tok("</body>"), WS, Tok("</html>")>>))

\* base of post-body.js: function ({ head = "", body = "", title = "",
\* includeHomeLink = false }); its footer reads the clock.
base(this, title, body, includeHomeLink, now) ==
  Then(CallCssmin(this, STYLE),
     Return(
       BaseHead(Default(title, <<>>), CallCssmin(this, STYLE).out, TRUE)
       \o body
       \o <<WS, Tok("<footer class=\"container\" style=\"height: 4rem;\">"), WS,
            Tok("<div class=\"content\" style=\"display: flex; justify-content: "),
            Tok(IF includeHomeLink THEN "space-between" ELSE "flex-end"),
            Tok("; align-items: baseline;\">"), WS>>
       \o (IF includeHomeLink THEN <<Tok("<a href=\"/\">Back Home</a>")>> ELSE <<>>)
       \o <<WS, Tok("<h5>&copy; ")>> \o getFullYear(now)
       \o <<Tok(" Benjamin Morin</h5>"), WS, Tok("</div>"), WS, Tok("</footer>"), WS,
            Tok("</body>"), WS, Tok("</html>")>>))

\* require("./base-html"): the module of that name in the checkout.
RequireBase(module, this, title, body, includeHomeLink, now) ==
  IF module = "base-html.js" THEN base_html(this, title, body, includeHomeLink, now)
  ELSE base(this, title, body, includeHomeLink, now)

\* ------------------------------------------------------------ the layouts
\* JavaScript arrays are objects: `arrays` maps an array's name to its
\* elements, "post" for collections.post and "mapped" for the array that
\* collections.post.map(...) returns, and a function is given the name of the
\* array it works on.  A post is [url, title, date, snippet, content] (the
\* item's url and the fields of its data), an entry [title, date, snippet, url].

\* The comparator of Posts' sort: (a, b) => b.date - a.date.
Comparator(a, b) == DateDiff(b.date, a.date)

\* Array.prototype.sort(comparator): stable, in place.  Insert x behind every
\* element that does not have to follow it.
RECURSIVE Insert(_, _)
Insert(x, r) ==
  IF r = <<>> THEN <<x>>
  ELSE IF Comparator(Head(r), x) > 0 THEN <<x>> \o r
  ELSE <<Head(r)>> \o Insert(x, Tail(r))

RECURSIVE SortArray(_)
SortArray(a) ==
  IF a = <<>> THEN <<>>
  ELSE Insert(a[Len(a)], SortArray(SubSeq(a, 1, Len(a) - 1)))

\* The first exception thrown by a sequence of calls, if any.
FirstError(results) ==
  IF \E i \in DOMAIN results : results[i].err # "none"
  THEN results[CHOOSE i \in DOMAIN results :
                 /\ results[i].err # "none"
                 /\ \A j \in 1..(i - 1) : results[j].err = "none"].err
  ELSE "none"

\* The strings an array of calls returned, joined with sep; the first
\* exception if one of the calls threw.
JoinResults(results, sep) ==
  IF FirstError(results) # "none" THEN Throw(FirstError(results))
  ELSE Return(Join([i \in DOMAIN results |-> results[i].out], sep))

\* The result of a call together with the arrays as the call leaves them.
WithArrays(r, arrays) == [err |-> r.err, out |-> r.out, arrays |-> arrays]

\* The title Posts gives each entry: `<a href="${url}">${title}</a>`.
EntryTitle(e) ==
  <<Tok("<a href=\"")>> \o Str(e.url) \o <<Tok("\">")>> \o Str(e.title) \o <<Tok("</a>")>>

\* One entry of the post list of part_001.
EntryBody(e) ==
  PostBody(EntryTitle(e), e.date,
           <<Tok("<p class=\"post-body\">")>> \o Str(e.snippet) \o <<Tok("<p>")>>, TRUE)

PostEntry(e) == Then(EntryBody(e), Return(<<WS, Tok("<hr />"), WS>> \o EntryBody(e).out))

\* posts.sort(...).map(...).join("\n") on the sorted array.
MapJoin(sorted) == JoinResults([i \in DOMAIN sorted |-> PostEntry(sorted[i])], <<WS>>)

\* The array named posts sorted in place.
SortInPlace(arrays, posts, sorted) == [arrays EXCEPT ![posts] = sorted]

PostsSorted(arrays, posts, sorted) ==
  WithArrays(MapJoin(sorted), SortInPlace(arrays, posts, sorted))

\* Posts({ posts }) of part_001: posts.sort(...).map(...).join("\n"), with
\* the arrays as the sort leaves them.
Posts(arrays, posts) == PostsSorted(arrays, posts, SortArray(arrays[posts]))

\* One entry of the post list of index.11ty.js.
EntryBody_index11ty(e) == PostBody(EntryTitle(e), e.date, Str(e.snippet), TRUE)

PostEntry_index11ty(e) ==
  Then(EntryBody_index11ty(e),
       Return(<<WS, Tok("<hr />"), WS>> \o EntryBody_index11ty(e).out \o <<WS>>))

\* `\n${...}`: the line break in front of the list.
LeadingNewline(list) == Then(list, Return(<<WS>> \o list.out))

\* Posts({ posts }) of index.11ty.js: `${posts.map(...)}`, the array put
\* into the template literal as it is, which joins it with ",".
Posts_index11ty(arrays, posts) ==
  WithArrays(
    LeadingNewline(
      JoinResults([i \in DOMAIN arrays[posts] |-> PostEntry_index11ty(arrays[posts][i])],
                  <<Tok(",")>>)),
    arrays)

\* Entry with the title copied into snippet.
EntryTitleAsSnippet(post) ==
  [title |-> post.title, date |-> post.date, snippet |-> post.title, url |-> post.url]

\* ({ url, data: { title, date, snippet } }) => ({ title, date, snippet, url })
Entry(post) ==
  [title |-> post.title, date |-> post.date, snippet |-> post.snippet, url |-> post.url]

\* Posts given collections.post itself instead of a mapped copy.
MapCollectionAliased(arrays) == [name |-> "post", arrays |-> arrays]

\* collections.post.map(...): a new array, "mapped", which Posts is given.
MapCollection(arrays) ==
  [name |-> "mapped",
   arrays |-> [arrays EXCEPT !["mapped"] =
                 [i \in DOMAIN arrays["post"] |-> Entry(arrays["post"][i])]]]

\* The body both index layouts give to base, around the post list.
IndexBody(jumbo, content, list) ==
  <<WS>> \o jumbo
  \o <<WS, Tok("<main class=\"container\">"), WS, Tok("<section class=\"content\">"), WS>>
  \o Str(content)
  \o <<WS, Tok("</section>"), WS, WS, Tok("<section class=\"content\">"), WS,
       Tok("<header>"), WS, Tok("<h3>Latest posts</h3>"), WS, Tok("</header>"), WS, WS>>
  \o list
  \o <<WS, Tok("</section>"), WS, Tok("</main>"), WS>>

\* base.call(this, { title, body }) of an index layout on the post list that
\* Posts returned.
IndexPage(this, modules, title, data, list, now) ==
  WithArrays(
    Then(list,
      RequireBase(modules.base, this, title,
        IndexBody(JumboTron(data.title, data.subtitle).out, data.content, list.out),
        FALSE, now)),
    list.arrays)

\* Posts({ posts: collections.post.map(...) }) of part_001.
CallPosts(arg) == Posts(arg.arrays, arg.name)

\* The index layout of part_001: function ({ content, title, subtitle,
\* collections }); the result carries the arrays as the call leaves them.
IndexLayout(this, modules, data, arrays, now) ==
  IndexPage(this, modules, "Benjamin Morin", data, CallPosts(MapCollection(arrays)), now)

\* Posts({ posts: collections.post.map(...) }) of index.11ty.js.
CallPosts_index11ty(arg) == Posts_index11ty(arg.arrays, arg.name)

\* The index layout of index.11ty.js: no title is given to base.
IndexLayout_index11ty(this, modules, data, arrays, now) ==
  IndexPage(this, modules, Undefined, data, CallPosts_index11ty(MapCollection(arrays)), now)

\* PostBody({ title, date, content }) of the post layout.
LayoutBody(data) == PostBody(Str(data.title), data.date, Str(data.content), FALSE)

\* The post layout without `title` among the properties given to base.
PostLayoutNoTitle(this, modules, data, now) ==
  Then(LayoutBody(data),
    RequireBase(modules.base, this, Undefined,
      <<WS>> \o navbar("Benjamin Morin", <<>>).out
      \o <<WS, Tok("<main class=\"container\">"), WS>> \o LayoutBody(data).out
      \o <<WS, Tok("</main>"), WS>>,
      TRUE, now))

\* The post layout of part_000: function ({ title, content, date }).
PostLayout(this, modules, data, now) ==
  Then(LayoutBody(data),
    RequireBase(modules.base, this, data.title,
      <<WS>> \o navbar("Benjamin Morin", <<>>).out
      \o <<WS, Tok("<main class=\"container\">"), WS>> \o LayoutBody(data).out
      \o <<WS, Tok("</main>"), WS>>,
      TRUE, now))

\* ------------------------------------------------------- the configuration
\* The site configuration before the configuration function has run.
EmptyConfig ==
  [done |-> FALSE, browserSync |-> {}, passthroughCopies |-> {}, filters |-> {},
   transforms |-> {}, plugins |-> {}, dir |-> <<>>]

\* module.exports = function (config) of .eleventy.js.
EleventyConfig(config) ==
  [config EXCEPT
     !.done = TRUE,
     !.browserSync = {"port: 4080"},
     !.passthroughCopies = @ \cup {"assets"},
     !.filters = @ \cup {"cssmin"},
     !.transforms = @ \cup {"htmlmin"},
     !.dir = <<"src", "docs">>]

\* String.prototype.endsWith on strings as sequences of characters.
endsWith(str, suffix) ==
  /\ Len(str) >= Len(suffix)
  /\ SubSeq(str, Len(str) - Len(suffix) + 1, Len(str)) = suffix

DotHtml == <<".", "h", "t", "m", "l">>

\* htmlmin.minify(content, { useShortDoctype, removeComments,
\* collapseWhitespace }): the comments and the white space between tags go.
minify(content) ==
  SelectSeq(content, LAMBDA tok : ~IsWhitespace(tok) /\ ~IsComment(tok))

\* The transform testing for "html" without the dot.
htmlminAnyHtml(content, outputPath) ==
  IF "str" \notin DOMAIN outputPath THEN Throw("TypeError")
  ELSE IF endsWith(outputPath.str, <<"h", "t", "m", "l">>) THEN Return(minify(content))
  ELSE Return(content)

\* The "htmlmin" transform: function (content, outputPath).  An output path
\* is [str |-> characters], or [false |-> TRUE] for a page that is not
\* written, and false has no method endsWith.
htmlmin(content, outputPath) ==
  IF "str" \notin DOMAIN outputPath THEN Throw("TypeError")
  ELSE IF endsWith(outputPath.str, DotHtml) THEN Return(minify(content))
  ELSE Return(content)

\* ------------------------------------------ the hooks and their middleware
\* The code of the posts on useApiState.  A JavaScript value is [kind, n]:
\* null, undefined, the arguments of a request, the data or the error that
\* call n of caller settles with, or an exception.  An action is [type, args,
\* data, error], a property it does not have being undefined.
Val(kind, n) == [kind |-> kind, n |-> n]
Null == Val("null", 0)
Undef == Val("undefined", 0)

FETCH == "FETCH"
FAILURE == "FAILURE"
SUCCESS == "SUCCESS"

Action(type, args, data, error) ==
  [type |-> type, args |-> args, data |-> data, error |-> error]

\* INITIAL_STATE of part_003.
INITIAL_STATE == [error |-> Null, loading |-> FALSE, data |-> Null]

\* The reducer with a FAILURE that leaves loading as it is.
reducer_useApiStateStillLoading(state, action) ==
  CASE action.type = FETCH -> [error |-> Null, loading |-> TRUE, data |-> Null]
    [] action.type = FAILURE -> [state EXCEPT !.error = action.error]
    [] action.type = SUCCESS -> [state EXCEPT !.loading = FALSE, !.data = action.data]
    [] OTHER -> state

\* reducer of use-api-state.md: SUCCESS and FAILURE spread the state.
reducer_useApiState(state, action) ==
  CASE action.type = FETCH -> [error |-> Null, loading |-> TRUE, data |-> Null]
    [] action.type = FAILURE -> [state EXCEPT !.loading = FALSE, !.error = action.error]
    [] action.type = SUCCESS -> [state EXCEPT !.loading = FALSE, !.data = action.data]
    [] OTHER -> state

\* The reducer with a FETCH that keeps the data it has.
reducerKeepingData(state, action) ==
  CASE action.type = FETCH -> [error |-> Null, loading |-> TRUE, data |-> state.data]
    [] action.type = FAILURE -> [data |-> Null, loading |-> FALSE, error |-> action.error]
    [] action.type = SUCCESS -> [error |-> Null, loading |-> FALSE, data |-> action.data]
    [] OTHER -> state

\* reducer of part_003.
reducer(state, action) ==
  CASE action.type = FETCH -> [error |-> Null, loading |-> TRUE, data |-> Null]
    [] action.type = FAILURE -> [data |-> Null, loading |-> FALSE, error |-> action.error]
    [] action.type = SUCCESS -> [error |-> Null, loading |-> FALSE, data |-> action.data]
    [] OTHER -> state

\* A run of code on the hook: the reducer's state, the calls of caller, the
\* trace of what happened, and the exception the run has thrown, if any.
\* An event of the trace is [ev, who, action, call]: what happened, the
\* function it happened in, the action it happened to, and for the follow-up
\* of a call of caller the number of the call (else 0).
Event(ev, who, action, call) == [ev |-> ev, who |-> who, action |-> action, call |-> call]
Threw(r, e) == [r EXCEPT !.err = e]
Traced(r, ev, who, action) == [r EXCEPT !.trace = Append(@, Event(ev, who, action, 0))]

\* dispatch of useReducer(reducer, ...): the reducer makes the next state of
\* the actions in the order they are dispatched.
Dispatch(h, action, r) ==
  [Traced(r, "reduce", "reducer", action) EXCEPT
     !.state = IF h.reducer = "use-api-state.md"
               THEN reducer_useApiState(r.state, action)
               ELSE reducer(r.state, action)]

\* caller(...action.args): spreading undefined is a TypeError; otherwise the
\* call is pending until its promise settles.  `by` is the function that
\* handles the settlement.
Caller(action, by, r) ==
  IF r.err # "none" THEN r
  ELSE IF action.args = Undef THEN Threw(r, "TypeError")
  ELSE [Traced(r, "call", "caller", action) EXCEPT
          !.calls = Append(@, [args |-> action.args, by |-> by, status |-> "pending"])]

\* A dispatch function is the middleware it is made of, outermost first,
\* around the dispatch of useReducer: h.nest.  Through(h, i, action, r) is
\* the call of the i-th of them, the dispatch of useReducer behind the last;
\* code after an exception does not run.
RECURSIVE Through(_, _, _, _)

RETRY == Action("RETRY", Undef, Undef, Undef)
Refetch(action) == Action(FETCH, action.args, Undef, Undef)

\* The dispatch of applyMiddleware before the chain is composed, with no
\* exception: the dispatch of the store.
DispatchToStore(h, action, r) == Dispatch(h, action, r)

\* let dispatch = () => { throw new Error("Dispatching while constructing
\* your middleware is not allowed. ...") }
InitialDispatch(h, action, r) == Threw(r, "Error")

\* middlewareAPI.dispatch: (action, ...args) => dispatch(action, ...args), on
\* the value the variable dispatch has when it is called.
ApiDispatch(h, action, r) ==
  IF h.status = "composed" THEN Through(h, 1, action, Traced(r, "api", "store", action))
  ELSE InitialDispatch(h, action, Traced(r, "api", "store", action))

\* logMiddleware = (dispatch) => (action) => { console.log(...); return
\* dispatch(action) }
logMiddleware(h, i, action, r) == Through(h, i + 1, action, Traced(r, "log", h.nest[i], action))

\* retryMiddleware = (dispatch) => (action): RETRY and FETCH go to the next
\* dispatch.
retryMiddleware(h, i, action, r) ==
  IF action.type = FAILURE
  THEN Through(h, i + 1, Refetch(action), Through(h, i + 1, RETRY, r))
  ELSE Through(h, i + 1, action, r)

\* The rest of fetcher once dispatch(action) has returned.
AfterDispatch(i, action, r) ==
  IF action.type = FETCH THEN Caller(action, i, r) ELSE r

\* fetcher calling caller before it dispatches the action.
fetcherCallerFirst(h, i, action, r) ==
  IF action.type = FETCH THEN Through(h, i + 1, action, Caller(action, i, r))
  ELSE Through(h, i + 1, action, r)

\* fetcher = (caller) => (dispatch) => (action), fetchMiddleware of
\* use-api-state.md.
fetcher(h, i, action, r) == AfterDispatch(i, action, Through(h, i + 1, action, r))

\* The retry that also gives the FAILURE to next.
retryMiddleware_storeAlsoNext(h, i, action, r) ==
  IF action.type = FAILURE
  THEN ApiDispatch(h, Refetch(action), ApiDispatch(h, RETRY, Through(h, i + 1, action, r)))
  ELSE Through(h, i + 1, action, r)

\* retryMiddleware = ({ dispatch }) => (next) => (action)
retryMiddleware_store(h, i, action, r) ==
  IF action.type = FAILURE
  THEN ApiDispatch(h, Refetch(action), ApiDispatch(h, RETRY, r))
  ELSE Through(h, i + 1, action, r)

\* logMiddleware = (store) => (next) => (action)
logMiddleware_store(h, i, action, r) ==
  Through(h, i + 1, action, Traced(r, "log", h.nest[i], action))

\* The fetch middleware that useApiState gives to useEnhancedReducer: fetcher
\* with the signature store => next => action, whose follow-up goes to the
\* dispatch of the store API.
fetchMiddleware_store(h, i, action, r) ==
  AfterDispatch(i, action, Through(h, i + 1, action, r))

\* A middleware that dispatches while it is bound to the store API, or while
\* the chain is composed, and passes every action on to next.
eagerMiddleware(h, i, action, r) == Through(h, i + 1, action, r)

Middleware(h, i, action, r) ==
  CASE h.nest[i] = "logMiddleware" -> logMiddleware(h, i, action, r)
    [] h.nest[i] = "retryMiddleware" -> retryMiddleware(h, i, action, r)
    [] h.nest[i] = "fetcher" -> fetcher(h, i, action, r)
    [] h.nest[i] = "logMiddleware_store" -> logMiddleware_store(h, i, action, r)
    [] h.nest[i] = "retryMiddleware_store" -> retryMiddleware_store(h, i, action, r)
    [] h.nest[i] = "fetchMiddleware_store" -> fetchMiddleware_store(h, i, action, r)
    [] OTHER -> eagerMiddleware(h, i, action, r)

Through(h, i, action, r) ==
  IF r.err # "none" THEN r
  ELSE IF i > Len(h.nest) THEN Dispatch(h, action, r)
  ELSE Middleware(h, i, action, Traced(r, "see", h.nest[i], action))

\* pipe(src, ...procs) = procs.reduce((acc, proc) => proc(acc), src), for
\* procs that are middleware and src a dispatch function: proc(acc) is proc
\* around acc.
Wrap(proc, acc) == <<proc>> \o acc

RECURSIVE Reduce(_, _, _)
Reduce(procs, n, src) == IF n = 0 THEN src ELSE Wrap(procs[n], Reduce(procs, n - 1, src))

pipe(src, procs) == Reduce(procs, Len(procs), src)

\* pipe of the final post: (src, ...proc) => procs.reduce((acc, proc) =>
\* proc(acc), src).  The parameter is proc; procs is not declared, and
\* reading it is a ReferenceError.
pipe_procs(src, proc) == Throw("ReferenceError")

\* compose(...chain)(dispatch) = chain[0](chain[1](...(dispatch)))
RECURSIVE compose(_, _)
compose(chain, dispatch) ==
  IF chain = <<>> THEN dispatch ELSE Wrap(Head(chain), compose(Tail(chain), dispatch))

\* The action a middleware dispatches while the chain is constructed.
INIT == Action("INIT", Undef, Undef, Undef)

\* chain = middlewares.map((middleware) => middleware(middlewareAPI)): the
\* code of each middleware in front of its `next =>`, first to last.
RECURSIVE BindAll(_, _, _)
BindAll(h, k, r) ==
  IF k > Len(h.middleware) \/ r.err # "none" THEN r
  ELSE BindAll(h, k + 1,
         IF h.middleware[k] = "eagerMiddleware_store" THEN ApiDispatch(h, INIT, r) ELSE r)

\* compose(...chain)(store.dispatch): the code of each middleware between
\* `next =>` and `action =>`, last to first.
RECURSIVE ComposeAll(_, _, _)
ComposeAll(h, k, r) ==
  IF k < 1 \/ r.err # "none" THEN r
  ELSE ComposeAll(h, k - 1,
         IF h.middleware[k] = "eagerMiddleware_next" THEN ApiDispatch(h, INIT, r) ELSE r)

\* applyMiddleware(...middlewares)(createStore)(): the run that constructs
\* the chain.
applyMiddleware(h, r) == ComposeAll(h, Len(h.middleware), BindAll(h, 1, r))

\* The hook runs: what its dispatch function is made of, and what happened
\* while it was made.  useApiState of part_003:40-49 is fetcher(caller)(dispatch);
\* the draft (part_003:633-646) pipes the middleware and then fetcher, which
\* is outermost; the unrolled chain of part_003:104 is written out;
\* useEnhancedReducer composes the chain of applyMiddleware.
Constructed(h, r) ==
  [h EXCEPT
     !.status = IF r.err = "none" THEN "composed" ELSE "threw",
     !.nest = IF r.err # "none" THEN <<>>
              ELSE IF h.use = "useApiState" THEN Wrap("fetcher", <<>>)
              ELSE IF h.use = "useApiState_draft" THEN pipe(<<>>, h.middleware \o <<"fetcher">>)
              ELSE IF h.use = "unrolled"
                THEN Wrap("logMiddleware", Wrap("retryMiddleware", Wrap("fetcher", <<>>)))
              ELSE compose(h.middleware, <<>>)]

\* The run of the hook's body.  useApiState of part_003:81-90 calls the pipe
\* of part_003:79 and ends in its exception.
UseHook(h, r) ==
  IF h.use = "useEnhancedReducer" THEN applyMiddleware(h, r)
  ELSE IF h.use = "useApiState_middleware"
    THEN Threw(r, pipe_procs(<<>>, <<"fetcher">> \o h.middleware).err)
  ELSE r

\* ----------------------------------------------------------------- inputs
\* The posts a collection is drawn from: post k has its own url, title,
\* snippet and content, a date of Dates, and at most one post of a collection
\* lacks one of the front-matter fields of Missing.
UrlOf == <<"/posts/2020/getting-started/", "/posts/2020/use-api-state/",
           "/posts/2020/use-reducer-middleware/", "/posts/2020/ssh-for-github/">>
TitleOf == <<"Getting Started", "useApiState Hook", "Middleware for useReducer",
             "SSH for GitHub">>
SnippetOf == <<"So much to do and so little time", "A hook for API calls",
               "The almost but not quite there solution", "Keys, not passwords">>
ContentOf == <<"<div class=\"post-body\">1</div>", "<div class=\"post-body\">2</div>",
               "<div class=\"post-body\">3</div>", "<div class=\"post-body\">4</div>">>

\* 2020-05-10 at 00:00 and at 12:00, and 2020-11-03: the dates of the posts.
Dates == {[day |-> 18392, ms |-> 0], [day |-> 18392, ms |-> 43200000],
          [day |-> 18569, ms |-> 0]}
Missing == {"title", "date", "snippet"}

MakePost(k, date, missing) ==
  [url |-> UrlOf[k],
   title |-> IF missing = "title" THEN Undefined ELSE TitleOf[k],
   date |-> IF missing = "date" THEN UndefinedDate ELSE date,
   snippet |-> IF missing = "snippet" THEN Undefined ELSE SnippetOf[k],
   content |-> ContentOf[k]]

\* Every collections.post of at most MaxPosts posts, in every order of their
\* dates.
Collections ==
  UNION {
    {[i \in 1..n |-> MakePost(i, dates[i], IF i = lacks[1] THEN lacks[2] ELSE "none")] :
       dates \in [1..n -> Dates],
       lacks \in {<<0, "none">>} \cup ((1..n) \X Missing)} :
    n \in 0..MaxPosts}

\* The data of the index page: its front matter and its content.
IndexData ==
  [title |-> "Benjamin Morin", subtitle |-> "Software developer",
   content |-> "<p id=\"about-me\">About me</p>"]

\* The time of a build: 2020-11-03.
BuildClock == {[day |-> 18569, ms |-> 0]}

\* The clock: 2020-11-03, 2020-12-31 and 2021-01-01.
Clock == {[day |-> 18569, ms |-> 0], [day |-> 18627, ms |-> 0], [day |-> 18628, ms |-> 0]}

\* The hooks of the posts: useApiState with fetcher alone, useApiState with
\* a middleware parameter given the retry and log middleware, the unrolled
\* chain of the same middleware, the draft with fetcher listed last, which
\* also hands out enhancedDispatch, and useEnhancedReducer with store
\* middleware, among them middleware that dispatches while the chain is
\* constructed.
Hook(use, middleware, exposed, rev) ==
  [use |-> use, middleware |-> middleware, exposed |-> exposed, reducer |-> rev,
   status |-> "none", nest |-> <<>>]

Hooks ==
  {Hook("useApiState", <<>>, FALSE, rev) : rev \in {"part_003", "use-api-state.md"}}
  \cup {Hook("useApiState_middleware", <<"retryMiddleware", "logMiddleware">>, FALSE,
             "part_003"),
        Hook("unrolled", <<"retryMiddleware", "logMiddleware">>, FALSE, "part_003"),
        Hook("useApiState_draft", <<>>, TRUE, "part_003"),
        Hook("useApiState_draft", <<"logMiddleware">>, TRUE, "part_003"),
        Hook("useEnhancedReducer",
             <<"logMiddleware_store", "retryMiddleware_store", "fetchMiddleware_store">>,
             FALSE, "part_003"),
        Hook("useEnhancedReducer", <<"logMiddleware_store", "retryMiddleware_store">>,
             TRUE, "part_003"),
        Hook("useEnhancedReducer", <<"logMiddleware_store", "eagerMiddleware_store">>,
             TRUE, "part_003"),
        Hook("useEnhancedReducer", <<"eagerMiddleware_next", "logMiddleware_store">>,
             TRUE, "part_003")}

NoHook == Hook("none", <<>>, FALSE, "part_003")

\* The actions a component dispatches: (...args) => enhancedDispatch({ type:
\* FETCH, args }), and through enhancedDispatch itself actions of other types.
FetchActions == {Action(FETCH, Val("args", n), Undef, Undef) : n \in 1..2}
ExternalActions ==
  FetchActions
  \cup {Action(SUCCESS, Undef, Val("data", 0), Undef),
        Action(FAILURE, Undef, Undef, Val("error", 0)),
        Action("OTHER", Undef, Undef, Undef)}

\* Most actions a component dispatches.
MaxDispatches == 2

\* The revisions of the reducer, and the states and actions it is called
\* with: every state of the three fields over null and a value, a state with
\* a field of its own that { ...INITIAL_STATE, ...initialState } lets in,
\* and the actions of a component, of the fetch function and of the retry.
Revisions == {"part_003", "use-api-state.md"}
States ==
  [error : {Null, Val("error", 1)}, loading : BOOLEAN, data : {Null, Val("data", 1)}]
  \cup {[error |-> Null, loading |-> l, data |-> Val("data", 1), user |-> Val("args", 1)] :
          l \in BOOLEAN}
ReducerActions ==
  ExternalActions
  \cup {Action(SUCCESS, Undef, Val("data", 2), Undef),
        Action(FAILURE, Undef, Undef, Val("error", 2)),
        Action(SUCCESS, Undef, Undef, Undef),
        RETRY}

\* The pipes of the source: function pipe of .eleventy.js:351, the arrow
\* function of part_003:625 and the one of part_003:79 (and .eleventy.js:135),
\* and what they are called with: a dispatch function, that of useReducer or
\* one that fetcher is already around, and at most MaxProcs middleware.
MaxProcs == 3
PipeRevisions == {".eleventy.js:351", "part_003:625", "part_003:79"}
Procedures == {"logMiddleware", "retryMiddleware", "fetcher"}
ProcLists == UNION {[1..n -> Procedures] : n \in 0..MaxProcs}
Sources == {<<>>, <<"fetcher">>}

\* The modules a checkout can hold under the names the layouts require.
Modules == [base : {"base-html.js", "post-body.js"}, index : {"part_001", "index.11ty.js"}]

\* ------------------------------------------------------------------ state
VARIABLES
  config,     \* the site configuration (Eleventy's UserConfig)
  modules,    \* which base layout and which index layout the checkout holds
  parsed,     \* collections.post as parsed from the source files
  arrays,     \* the arrays: collections.post ("post") and the mapped copy
  now,        \* the clock
  rendered,   \* page -> what its layout returned (page 0 is the index)
  written,    \* page -> the document written for it, after the transforms
  failed,     \* the pages whose build threw; the build halts at the first
  first,      \* a call of a template function that is remembered
  last,       \* the latest call of a template function
  transformed, \* the latest call of the htmlmin transform
  step,       \* the file the build is working on, and where it is with it
  passes,     \* page -> how many times the transforms were run on it
  hook,       \* the hook of a component: its middleware and its dispatch
  state,      \* the state of the hook's reducer
  calls,      \* the calls of caller, in the order they were made
  trace       \* what has happened in the hook, in order

buildVars == <<config, modules, parsed, arrays, rendered, written, failed>>
batchVars == <<step, passes>>
hookVars == <<hook, state, calls, trace>>
siteVars == <<config, modules, parsed, arrays, now, rendered, written, failed,
              first, last, transformed, step, passes>>
vars == <<config, modules, parsed, arrays, now, rendered, written, failed,
          first, last, transformed, step, passes, hook, state, calls, trace>>

NoCall == [fn |-> "none"]

NotBuilt == [err |-> "notbuilt", out |-> <<>>]
Idle == [page |-> -1, at |-> "idle"]
Pages == 0..Len(parsed)
IsBuilt(doc) == doc.err = "none"

\* ------------------------------------------------------------- the build
\* The path Eleventy writes a page of this site to: <output>/<url>index.html.
OutputPathOf(page) ==
  [str |-> <<"d", "o", "c", "s", "/", "i", "n", "d", "e", "x", ".", "h", "t", "m", "l">>]

\* `this` of a layout: the filters of the configuration.
This(cfg) == [filters |-> cfg.filters]

\* The transforms of the configuration, applied to a rendered page.
ApplyTransforms(cfg, content, outputPath) ==
  IF "htmlmin" \in cfg.transforms THEN htmlmin(content, outputPath) ELSE Return(content)

\* What a page's layout returned (render), and what the transforms made of it.
RenderThenTransform(r, page) ==
  [render |-> r,
   doc |-> Then(r, ApplyTransforms(config, r.out, OutputPathOf(page)))]

\* The layout of a page, run on the page's data.
RenderPage(page) ==
  IF page = 0
  THEN IF modules.index = "part_001"
       THEN IndexLayout(This(config), modules, IndexData, arrays, now)
       ELSE IndexLayout_index11ty(This(config), modules, IndexData, arrays, now)
  ELSE WithArrays(PostLayout(This(config), modules, arrays["post"][page], now), arrays)

\* A page's layout, then the transforms on what it returned.
RenderAndTransform(page) ==
  RenderThenTransform(RenderPage(page), page)

Init ==
  /\ config = EmptyConfig
  /\ modules \in Modules
  /\ parsed \in Collections
  /\ arrays = [post |-> parsed, mapped |-> <<>>]
  /\ now \in BuildClock
  /\ rendered = [p \in Pages |-> NotBuilt]
  /\ written = [p \in Pages |-> NotBuilt]
  /\ failed = {}
  /\ first = NoCall /\ last = NoCall /\ transformed = NoCall
  /\ step = Idle
  /\ passes = [p \in Pages |-> 0]
  /\ hook = NoHook /\ state = INITIAL_STATE /\ calls = <<>> /\ trace = <<>>

\* Eleventy calls the configuration function, once, before anything else.
Configure ==
  /\ ~config.done
  /\ config' = EleventyConfig(config)
  /\ UNCHANGED <<modules, parsed, arrays, now, rendered, written, failed>>
  /\ UNCHANGED <<first, last, transformed, batchVars, hookVars>>

\* A page whose layout and transforms return is written.
BuildPage(page) ==
  /\ config.done /\ failed = {} /\ ~IsBuilt(written[page])
  /\ \E b \in {RenderAndTransform(page)} :
        /\ b.doc.err = "none"
        /\ rendered' = [rendered EXCEPT ![page] = Return(b.render.out)]
        /\ written' = [written EXCEPT ![page] = b.doc]
        /\ arrays' = [b.render.arrays EXCEPT !["mapped"] = <<>>]
  /\ UNCHANGED <<config, modules, parsed, now, failed, first, last, transformed>>
  /\ UNCHANGED <<batchVars, hookVars>>

\* A page whose layout or transform throws halts the build: nothing is
\* written for it, nor for any page after it.
FailPage(page) ==
  /\ config.done /\ failed = {} /\ ~IsBuilt(written[page])
  /\ \E b \in {RenderAndTransform(page)} :
        /\ b.doc.err # "none"
        /\ failed' = failed \cup {page}
        /\ arrays' = [b.render.arrays EXCEPT !["mapped"] = <<>>]
  /\ UNCHANGED <<config, modules, parsed, now, rendered, written, first, last, transformed>>
  /\ UNCHANGED <<batchVars, hookVars>>

Next ==
  \/ Configure
  \/ \E page \in Pages : BuildPage(page)
  \/ \E page \in Pages : FailPage(page)

Spec == Init /\ [][Next]_vars

Completed == config.done /\ failed = {} /\ \A p \in Pages : IsBuilt(written[p])

\* ------------------------------------------------- the build, step by step
\* The build as a batch: it takes up one file, runs its layout, runs the
\* transforms on what the layout returned and writes the document, and only
\* then takes up the next file.  An exception halts it.

\* A file taken up whether or not another one is being worked on.
StartFileAnytime(page) ==
  /\ config.done /\ failed = {}
  /\ ~IsBuilt(rendered[page]) /\ ~IsBuilt(written[page])
  /\ step' = [page |-> page, at |-> "render"]
  /\ UNCHANGED <<buildVars, now, first, last, transformed, passes, hookVars>>

\* The build takes up a file it has not built yet.
StartFile(page) ==
  /\ config.done /\ failed = {} /\ step = Idle
  /\ ~IsBuilt(rendered[page]) /\ ~IsBuilt(written[page])
  /\ step' = [page |-> page, at |-> "render"]
  /\ UNCHANGED <<buildVars, now, first, last, transformed, passes, hookVars>>

\* The layout of the file runs; an exception halts the build.
RenderFile ==
  /\ step.at = "render" /\ failed = {}
  /\ \E r \in {RenderPage(step.page)} :
       /\ arrays' = [r.arrays EXCEPT !["mapped"] = <<>>]
       /\ IF r.err = "none"
          THEN /\ rendered' = [rendered EXCEPT ![step.page] = Return(r.out)]
               /\ step' = [step EXCEPT !.at = "transform"]
               /\ UNCHANGED failed
          ELSE /\ failed' = failed \cup {step.page}
               /\ step' = Idle
               /\ UNCHANGED rendered
  /\ UNCHANGED <<config, modules, parsed, now, written, first, last, transformed, passes, hookVars>>

\* The transforms run on what the layout returned and the document is
\* written; an exception halts the build.
TransformFile ==
  /\ step.at = "transform" /\ failed = {}
  /\ \E d \in {ApplyTransforms(config, rendered[step.page].out, OutputPathOf(step.page))} :
       /\ passes' = [passes EXCEPT ![step.page] = @ + 1]
       /\ step' = Idle
       /\ IF d.err = "none"
          THEN written' = [written EXCEPT ![step.page] = d] /\ UNCHANGED failed
          ELSE failed' = failed \cup {step.page} /\ UNCHANGED written
  /\ UNCHANGED <<config, modules, parsed, arrays, now, rendered, first, last, transformed, hookVars>>

NextBatch ==
  \/ Configure
  \/ \E page \in Pages : StartFile(page)
  \/ RenderFile
  \/ TransformFile

SpecBatch == Init /\ [][NextBatch]_vars

\* ------------------------------------------- calls of the template functions
\* The properties the template functions are called with.
JumboTronProps ==
  {[title |-> t, subtitle |-> "Software developer"] : t \in {"Benjamin Morin", Undefined}}
NavbarProps ==
  {[brand |-> "Benjamin Morin", links |-> l] : l \in {<<>>, <<[text |-> "Home", url |-> "/"]>>}}
PostBodyProps ==
  {[title |-> <<Tok(TitleOf[1])>>, date |-> d, content |-> <<Tok(ContentOf[1])>>,
    inContainer |-> c] :
     d \in {[day |-> 18392, ms |-> 0], UndefinedDate}, c \in BOOLEAN}
FooterProps == {[includeHomeLink |-> h] : h \in BOOLEAN}
BaseProps ==
  {[title |-> t, body |-> <<Tok("<main class=\"container\"></main>")>>,
    includeHomeLink |-> h] : t \in {TitleOf[1], Undefined}, h \in BOOLEAN}
PostLayoutProps ==
  {MakePost(1, [day |-> 18392, ms |-> 0], m) : m \in {"none", "title", "date"}}
IndexLayoutProps ==
  {[data |-> IndexData, collections |-> c] :
     c \in {<<>>,
            <<MakePost(1, [day |-> 18392, ms |-> 0], "none")>>,
            <<MakePost(1, [day |-> 18392, ms |-> 0], "none"),
              MakePost(2, [day |-> 18569, ms |-> 0], "none")>>}}

CallRecord(fn, props, result) ==
  [fn |-> fn, props |-> props, at |-> now, result |-> [err |-> result.err, out |-> result.out]]

\* A call is the latest call, and is remembered if none is yet.
Called(call) ==
  /\ last' = call
  /\ first' \in (IF first = NoCall THEN {first, call} ELSE {first})
  /\ UNCHANGED <<buildVars, now, transformed, batchVars, hookVars>>

CallJumboTron ==
  \E p \in JumboTronProps : Called(CallRecord("JumboTron", p, JumboTron(p.title, p.subtitle)))
CallNavbar ==
  \E p \in NavbarProps : Called(CallRecord("navbar", p, navbar(p.brand, p.links)))
CallPostBody ==
  \E p \in PostBodyProps :
    Called(CallRecord("PostBody", p, PostBody(p.title, p.date, p.content, p.inContainer)))
CallFooter ==
  \E p \in FooterProps : Called(CallRecord("footer", p, footer(p.includeHomeLink, now)))
CallBaseHtml ==
  \E p \in BaseProps :
    Called(CallRecord("base_html", p,
             base_html(This(config), p.title, p.body, p.includeHomeLink, now)))
CallBase ==
  \E p \in BaseProps :
    Called(CallRecord("base", p, base(This(config), p.title, p.body, p.includeHomeLink, now)))
CallPostLayout ==
  \E p \in PostLayoutProps :
    Called(CallRecord("PostLayout", p, PostLayout(This(config), modules, p, now)))
CallIndexLayout ==
  \E p \in IndexLayoutProps :
    Called(CallRecord("IndexLayout", p,
             IndexLayout(This(config), modules, p.data,
                         [post |-> p.collections, mapped |-> <<>>], now)))
CallIndexLayout_index11ty ==
  \E p \in IndexLayoutProps :
    Called(CallRecord("IndexLayout_index11ty", p,
             IndexLayout_index11ty(This(config), modules, p.data,
                                   [post |-> p.collections, mapped |-> <<>>], now)))

\* Time passes.
Tick ==
  /\ \E later \in Clock :
       /\ later.day > now.day \/ (later.day = now.day /\ later.ms > now.ms)
       /\ now' = later
  /\ UNCHANGED <<buildVars, first, last, transformed, batchVars, hookVars>>

InitCalls ==
  /\ config = EleventyConfig(EmptyConfig)
  /\ modules \in {m \in Modules : m.index = "part_001"}
  /\ parsed = <<>>
  /\ arrays = [post |-> parsed, mapped |-> <<>>]
  /\ now \in Clock
  /\ rendered = [p \in Pages |-> NotBuilt]
  /\ written = [p \in Pages |-> NotBuilt]
  /\ failed = {}
  /\ first = NoCall /\ last = NoCall /\ transformed = NoCall
  /\ step = Idle
  /\ passes = [p \in Pages |-> 0]
  /\ hook = NoHook /\ state = INITIAL_STATE /\ calls = <<>> /\ trace = <<>>

NextCalls ==
  \/ CallJumboTron \/ CallNavbar \/ CallPostBody \/ CallFooter \/ CallBaseHtml
  \/ CallBase \/ CallPostLayout \/ CallIndexLayout \/ CallIndexLayout_index11ty
  \/ Tick

SpecCalls == InitCalls /\ [][NextCalls]_vars

\* ------------------------------------------------ calls of the transform
\* Longest content the transform is called with.
MaxContentLen == 2

ContentTokens ==
  {WS, Tok("<!-- Global site tag (gtag.js) - Google Analytics -->"),
   Tok("<!DOCTYPE html>"), Tok("<p>About me</p>")}
Contents == UNION {[1..n -> ContentTokens] : n \in 0..MaxContentLen}

\* docs/index.html, feed.xml, feed.xhtml, .html, a.HTML, a.html.bak, a.htm
\* and false, the output path of a page that is not written.
OutputPaths ==
  {OutputPathOf(0),
   [str |-> <<"f", "e", "e", "d", ".", "x", "m", "l">>],
   [str |-> <<"f", "e", "e", "d", ".", "x", "h", "t", "m", "l">>],
   [str |-> <<".", "h", "t", "m", "l">>],
   [str |-> <<"a", ".", "H", "T", "M", "L">>],
   [str |-> <<"a", ".", "h", "t", "m", "l", ".", "b", "a", "k">>],
   [str |-> <<"a", ".", "h", "t", "m">>],
   [false |-> TRUE]}

\* Eleventy calls the transform with a page's content and output path.
Transform ==
  /\ \E content \in Contents, outputPath \in OutputPaths :
       transformed' = [fn |-> "htmlmin", content |-> content, outputPath |-> outputPath,
                       result |-> htmlmin(content, outputPath)]
  /\ UNCHANGED <<buildVars, now, first, last, batchVars, hookVars>>

SpecTransform == InitCalls /\ [][Transform]_vars

\* ---------------------------------------------------- calls of the reducer
\* The reducer of a revision.
ReducerOf(rev, s, action) ==
  IF rev = "use-api-state.md" THEN reducer_useApiState(s, action) ELSE reducer(s, action)

\* useReducer calls the reducer with the current state and an action.
CallReducer ==
  /\ \E rev \in Revisions, s \in States, action \in ReducerActions :
       last' = [fn |-> "reducer", props |-> [rev |-> rev, state |-> s, action |-> action],
                at |-> now, result |-> ReducerOf(rev, s, action)]
  /\ UNCHANGED <<buildVars, now, first, transformed, batchVars, hookVars>>

SpecReducer == InitCalls /\ [][CallReducer]_vars

\* -------------------------------------------------------- calls of pipe
\* The pipe of a revision.
PipeOf(rev, src, procs) ==
  IF rev = "part_003:79" THEN pipe_procs(src, procs) ELSE Return(pipe(src, procs))

\* pipe(src, ...procs) is called.
CallPipe ==
  /\ \E rev \in PipeRevisions, src \in Sources, procs \in ProcLists :
       last' = [fn |-> "pipe", props |-> [rev |-> rev, src |-> src, procs |-> procs],
                at |-> now, result |-> PipeOf(rev, src, procs)]
  /\ UNCHANGED <<buildVars, now, first, transformed, batchVars, hookVars>>

SpecPipe == InitCalls /\ [][CallPipe]_vars

\* ------------------------------------------------------------- the hooks
\* The run that starts in the current state.
Run == [state |-> state, calls |-> calls, trace |-> trace, err |-> "none"]

\* An exception that nothing catches is reported and the run is over.
Uncaught(r) ==
  IF r.err = "none" THEN r.trace
  ELSE Append(r.trace, Event("throw", "uncaught", Action(r.err, Undef, Undef, Undef), 0))

\* What a run leaves behind.
Commit(r) ==
  /\ state' = r.state
  /\ calls' = r.calls
  /\ trace' = Uncaught(r)

External == {k \in DOMAIN trace : trace[k].ev = "external"}

\* The component renders and the hook makes its dispatch function.
Mount ==
  /\ hook.use # "none" /\ hook.status = "none"
  /\ \E r \in {UseHook([hook EXCEPT !.status = "constructing"], Run)} :
       /\ hook' = Constructed(hook, r)
       /\ Commit(r)
  /\ UNCHANGED siteVars

\* The component dispatches an action.
DispatchAction(action) ==
  /\ hook.status = "composed"
  /\ Cardinality(External) < MaxDispatches
  /\ action.type = FETCH \/ hook.exposed
  /\ Commit(Through(hook, 1, action, Traced(Run, "external", "component", action)))
  /\ UNCHANGED <<siteVars, hook>>

\* The follow-up given to the whole chain.
FollowUpFromTop(h, c, action, r) ==
  Through(h, 1, action, [r EXCEPT !.trace = Append(@, Event("followup", "fetcher", action, c))])

\* The dispatch a fetch function gives its follow-up to: the next dispatch for
\* fetcher, the dispatch of the store API for the store middleware.
FollowUp(h, c, action, r) ==
  IF h.nest[r.calls[c].by] = "fetchMiddleware_store"
  THEN ApiDispatch(h, action, [r EXCEPT !.trace = Append(@, Event("followup", "fetcher", action, c))])
  ELSE Through(h, r.calls[c].by + 1, action,
               [r EXCEPT !.trace = Append(@, Event("followup", "fetcher", action, c))])

\* The handler of .catch run whether or not anything was thrown.
CatchAlways(h, c, r) ==
  FollowUp(h, c, Action(FAILURE, Undef, Undef, Val("error", c)), [r EXCEPT !.err = "none"])

\* .catch((error) => dispatch({ type: FAILURE, error })) behind .then(...):
\* it also catches what the handler of .then throws.
Catch(h, c, r) ==
  IF r.err = "none" THEN r
  ELSE FollowUp(h, c, Action(FAILURE, Undef, Undef, Val(r.err, 0)), [r EXCEPT !.err = "none"])

Settled(r, c, status) == [r EXCEPT !.calls[c].status = status]

\* The promise of a call of caller is fulfilled with the response data:
\* .then((data) => dispatch({ type: SUCCESS, data })).
Fulfil(c) ==
  /\ calls[c].status = "pending"
  /\ Commit(Catch(hook, c,
              FollowUp(hook, c, Action(SUCCESS, Undef, Val("data", c), Undef),
                       Settled(Run, c, "fulfilled"))))
  /\ UNCHANGED <<siteVars, hook>>

\* The promise of a call of caller is rejected with an error.
Reject(c) ==
  /\ calls[c].status = "pending"
  /\ Commit(FollowUp(hook, c, Action(FAILURE, Undef, Undef, Val("error", c)),
                     Settled(Run, c, "rejected")))
  /\ UNCHANGED <<siteVars, hook>>

InitHook ==
  /\ config = EleventyConfig(EmptyConfig)
  /\ modules \in {m \in Modules : m.index = "part_001" /\ m.base = "post-body.js"}
  /\ parsed = <<>>
  /\ arrays = [post |-> parsed, mapped |-> <<>>]
  /\ now \in BuildClock
  /\ rendered = [p \in Pages |-> NotBuilt]
  /\ written = [p \in Pages |-> NotBuilt]
  /\ failed = {}
  /\ first = NoCall /\ last = NoCall /\ transformed = NoCall
  /\ step = Idle
  /\ passes = [p \in Pages |-> 0]
  /\ hook \in Hooks /\ state = INITIAL_STATE /\ calls = <<>> /\ trace = <<>>

NextHook ==
  \/ Mount
  \/ \E action \in ExternalActions : DispatchAction(action)
  \/ \E c \in DOMAIN calls : Fulfil(c)
  \/ \E c \in DOMAIN calls : Reject(c)

SpecHook == InitHook /\ [][NextHook]_vars

\* ------------------------------------------------------ the claims (build)
PositionsOf(str, tok) == {i \in DOMAIN str : str[i] = tok}
FirstPosition(str, tok) ==
  CHOOSE i \in PositionsOf(str, tok) : \A j \in PositionsOf(str, tok) : i <= j
Follows(str, i, tok) == i > 1 /\ str[i - 1] = tok

IsLater(a, b) == a.day > b.day \/ (a.day = b.day /\ a.ms > b.ms)
Posts1 == 1..Len(parsed)

\* C1: in the index page, for any order of collections.post, the entry of a
\* post with a later date comes before the entry of a post with an earlier one.
C1_IndexDescending ==
  IsBuilt(written[0]) =>
    \A i, j \in Posts1 :
      IsLater(parsed[i].date, parsed[j].date) =>
        FirstPosition(written[0].out, Tok(parsed[i].url))
          < FirstPosition(written[0].out, Tok(parsed[j].url))

\* C2 as stated: the page of a post contains the post's title exactly once.
C2_TitleOnce ==
  \A p \in Posts1 :
    IsBuilt(written[p]) /\ parsed[p].title # Undefined =>
      Count(written[p].out, Tok(parsed[p].title)) = 1

\* C2 as amended: the page of a post contains the post's title exactly twice,
\* once as the text of <title> in the head and once as the <h1> heading.
C2_TitleInHeadAndHeading ==
  \A p \in Posts1 :
    IsBuilt(written[p]) /\ parsed[p].title # Undefined =>
      LET out == written[p].out
          at == PositionsOf(out, Tok(parsed[p].title))
      IN /\ Cardinality(at) = 2
         /\ \E i \in at : Follows(out, i, Tok("<title>"))
         /\ \E i \in at : Follows(out, i, Tok("<h1 style=\"margin-bottom: 0;\">"))

C2_Witness ==
  \E p \in Posts1 : IsBuilt(written[p]) /\ parsed[p].title # Undefined

\* C3: the page of a post contains the post's formatted date,
\* date.toDateString(), exactly once.
C3_DateOnce ==
  \A p \in Posts1 :
    IsBuilt(written[p]) => Count(written[p].out, toDateString(parsed[p].date)[1]) = 1

C3_Witness ==
  \E p \in Posts1 :
    /\ IsBuilt(written[p])
    /\ Follows(written[p].out,
               FirstPosition(written[p].out, toDateString(parsed[p].date)[1]),
               Tok("<h5 style=\"margin-top: 0;\" class=\"lt-text\">"))

\* The entry of the post list that position k lies in: from the <hr /> in
\* front of k to the next <hr />.
Rules(out) == PositionsOf(out, Tok("<hr />"))
EntryAt(out, k) ==
  {i \in DOMAIN out :
     /\ \E h \in Rules(out) : h < k /\ h <= i
     /\ \A h \in Rules(out) : h > k => i < h}
EntryHas(out, k, tok) == \E i \in EntryAt(out, k) : out[i] = tok

\* C4: a completed build has one document per post, holding that post's
\* content, and one index document, whose post list has exactly one entry per
\* post of collections.post, with that post's url, title, date and snippet.
C4_OneDocumentPerPost ==
  Completed =>
    /\ DOMAIN written = 0..Len(parsed)
    /\ \A p \in Posts1 :
         IsBuilt(written[p]) /\ Count(written[p].out, Tok(parsed[p].content)) = 1
    /\ IsBuilt(written[0])
    /\ Cardinality(Rules(written[0].out)) = Len(parsed)
    /\ \A p \in Posts1 :
         LET out == written[0].out
             k == FirstPosition(out, Tok(parsed[p].url))
         IN /\ Count(out, Tok(parsed[p].url)) = 1
            /\ Follows(out, k, Tok("<a href=\""))
            /\ EntryHas(out, k, Str(parsed[p].title)[1])
            /\ EntryHas(out, k, toDateString(parsed[p].date)[1])
            /\ EntryHas(out, k, Str(parsed[p].snippet)[1])

C4_Witness == Completed /\ Len(parsed) >= 2

\* C5: rendering the index page or a post page leaves collections.post as it
\* was parsed, the order of its posts and every field of every post.
C5_CollectionUnchanged == arrays["post"] = parsed

C5_Witness ==
  /\ IsBuilt(written[0]) /\ modules.index = "part_001"
  /\ \E i, j \in Posts1 : i < j /\ IsLater(parsed[j].date, parsed[i].date)
  /\ \E p \in Posts1 : IsBuilt(written[p])

\* C7: a post that lacks a field its layout interpolates makes rendering
\* throw, and no page is written for it: neither its own page, nor the index
\* page that lists it.
C7_MissingDataHalts ==
  /\ \A p \in Posts1 :
       parsed[p].title = Undefined \/ parsed[p].date = UndefinedDate
         => ~IsBuilt(written[p])
  /\ (\E p \in Posts1 : \/ parsed[p].title = Undefined
                        \/ parsed[p].date = UndefinedDate
                        \/ parsed[p].snippet = Undefined)
       => ~IsBuilt(written[0])

\* C8: no link of the index page's post list has a href or a text that comes
\* from an absent url or title.
C8_LinksPresent ==
  IsBuilt(written[0]) =>
    \A k \in PositionsOf(written[0].out, Tok("<a href=\"")) :
      /\ written[0].out[k + 1] # Tok("undefined")
      /\ written[0].out[k + 3] # Tok("undefined")

\* C9: once the configuration function has run, the configuration has a
\* passthrough copy rule, a CSS-minify filter, a syntax-highlighting plugin
\* and an HTML-minify transform.
C9_FourRegistrations ==
  config.done =>
    /\ "assets" \in config.passthroughCopies
    /\ "cssmin" \in config.filters
    /\ config.plugins # {}
    /\ "htmlmin" \in config.transforms

\* Where the parts of a page are: the opening tag of the footer, of the
\* navbar and of the jumbotron, and the text of a content.
FooterOpen == Tok("<footer class=\"container\" style=\"height: 4rem;\">")
NavbarOpen == Tok("<nav class=\"navbar\">")
JumboOpen == Tok("<header class=\"jumbo\">")
ListHeading == Tok("<h3>Latest posts</h3>")
Before(out, a, b) ==
  /\ PositionsOf(out, a) # {} /\ PositionsOf(out, b) # {}
  /\ \A i \in PositionsOf(out, a), j \in PositionsOf(out, b) : i < j

\* The base shell is outermost, and the footer is there once.
InShell(out) ==
  /\ out[1] = Tok("<!DOCTYPE html>") /\ out[Len(out)] = Tok("</html>")
  /\ Count(out, Tok("<body>")) = 1 /\ Count(out, Tok("</body>")) = 1
  /\ Count(out, FooterOpen) = 1 /\ Count(out, Tok("</footer>")) = 1
  /\ Before(out, Tok("<body>"), FooterOpen)
  /\ Before(out, Tok("</footer>"), Tok("</body>"))

\* C12: in every page written, the base shell is outermost; the navbar (post
\* page) or the jumbotron (index) comes before the content, on the index the
\* content comes before the post list, and the footer comes after all of
\* them, once.
C12_CompositionOrder ==
  /\ \A p \in Posts1 :
       IsBuilt(written[p]) =>
         /\ InShell(written[p].out)
         /\ Count(written[p].out, NavbarOpen) = 1
         /\ Before(written[p].out, Tok("<body>"), NavbarOpen)
         /\ Before(written[p].out, NavbarOpen, Tok(parsed[p].content))
         /\ Before(written[p].out, Tok(parsed[p].content), FooterOpen)
  /\ IsBuilt(written[0]) =>
       /\ InShell(written[0].out)
       /\ Count(written[0].out, JumboOpen) = 1
       /\ Before(written[0].out, Tok("<body>"), JumboOpen)
       /\ Before(written[0].out, JumboOpen, Tok(IndexData.content))
       /\ Before(written[0].out, Tok(IndexData.content), ListHeading)
       /\ Before(written[0].out, ListHeading, FooterOpen)
       /\ \A h \in Rules(written[0].out) :
            /\ FirstPosition(written[0].out, ListHeading) < h
            /\ h < FirstPosition(written[0].out, FooterOpen)

C12_Witness ==
  /\ IsBuilt(written[0]) /\ Rules(written[0].out) # {}
  /\ \E p \in Posts1 : IsBuilt(written[p])
  /\ modules.base = "post-body.js"

\* C13: in the index page as its layout returns it, whatever the number of
\* posts, nothing but white space stands between the end of one entry of the
\* post list and the rule that begins the next, and no comma is in the page.
C13_NoSeparator ==
  IsBuilt(rendered[0]) =>
    /\ Count(rendered[0].out, Tok(",")) = 0
    /\ \A a \in PositionsOf(rendered[0].out, Tok("</article>")), h \in Rules(rendered[0].out) :
         a < h /\ (\A g \in Rules(rendered[0].out) : ~(a < g /\ g < h))
           => \A i \in (a + 1)..(h - 1) : rendered[0].out[i] = WS

\* The footer of a page: from the opening tag of the footer to its end tag.
FooterOf(out) ==
  SubSeq(out, FirstPosition(out, FooterOpen), FirstPosition(out, Tok("</footer>")))
BackHome == Tok("<a href=\"/\">Back Home</a>")

\* C15: the footer of every post page written has the "Back Home" link to
\* "/" and justify-content space-between; the footer of the index page has
\* no such link and justify-content flex-end.
C15_BackHomeOnPostsOnly ==
  /\ \A p \in Posts1 :
       IsBuilt(written[p]) =>
         /\ Count(FooterOf(written[p].out), BackHome) = 1
         /\ Count(FooterOf(written[p].out), Tok("space-between")) = 1
         /\ Count(FooterOf(written[p].out), Tok("flex-end")) = 0
  /\ IsBuilt(written[0]) =>
       /\ Count(FooterOf(written[0].out), BackHome) = 0
       /\ Count(FooterOf(written[0].out), Tok("space-between")) = 0
       /\ Count(FooterOf(written[0].out), Tok("flex-end")) = 1

\* The files the build has begun and not finished.
InProgress ==
  {p \in Pages : IsBuilt(rendered[p]) /\ ~IsBuilt(written[p]) /\ p \notin failed}
  \cup (IF step = Idle THEN {} ELSE {step.page})

BatchEnded == step = Idle /\ (failed # {} \/ Completed)

\* The build can take a step: configure, go on with the file it is working
\* on, or take up a file.
CanStep ==
  \/ ~config.done
  \/ failed = {} /\ step.at \in {"render", "transform"}
  \/ /\ config.done /\ failed = {} /\ step = Idle
     /\ \E p \in Pages : ~IsBuilt(rendered[p]) /\ ~IsBuilt(written[p])

\* The steps a build has left: to configure, and for every file to take it
\* up, run its layout and run the transforms; none once it has halted.
StepsLeftOf(p) ==
  IF IsBuilt(written[p]) THEN 0
  ELSE IF step.page = p THEN (IF step.at = "render" THEN 2 ELSE 1)
  ELSE 3

RECURSIVE StepsLeftTo(_)
StepsLeftTo(n) == IF n < 0 THEN 0 ELSE StepsLeftOf(n) + StepsLeftTo(n - 1)

StepsLeft ==
  IF failed # {} THEN 0
  ELSE (IF config.done THEN 0 ELSE 1) + StepsLeftTo(Len(parsed))

\* C11: the build is a single pass over a fixed set of files: the transforms
\* run at most once on a file and exactly once on every file of a build that
\* completes, at most one file is in progress at any time, the set of files
\* does not change, and the build comes to an end: every step leaves fewer
\* steps to do, a build with steps left can take one, and a build with none
\* left has written every file or has halted at an exception.
C11_SinglePassBatch ==
  /\ [](\A p \in Pages : passes[p] <= 1)
  /\ [](Completed /\ step = Idle => \A p \in Pages : passes[p] = 1)
  /\ [](Cardinality(InProgress) <= 1)
  /\ [](DOMAIN written = Pages /\ arrays["post"] = parsed)
  /\ [][StepsLeft' < StepsLeft]_vars
  /\ [](StepsLeft > 0 => CanStep)
  /\ [](StepsLeft = 0 <=> BatchEnded)

C11_Witness == BatchEnded /\ Completed /\ Len(parsed) >= 2

\* ------------------------------------------------------ the claims (hooks)
Seen(who, types) ==
  {k \in DOMAIN trace :
     trace[k].ev = "see" /\ trace[k].who = who /\ trace[k].action.type \in types}
Happened(ev) == {k \in DOMAIN trace : trace[k].ev = ev}
FollowUps(c) == {k \in Happened("followup") : trace[k].call = c}
Types == {FETCH, SUCCESS, FAILURE, "RETRY", "OTHER", "INIT"}
WithFetcher ==
  hook.use \in {"useApiState", "useApiState_draft", "unrolled"} /\ hook.status = "composed"

\* The event in which call c of caller was made: the c-th call.
CallEvent(c) ==
  CHOOSE k \in Happened("call") : Cardinality({j \in Happened("call") : j <= k}) = c

\* Event k hands its action on: the next event is the next function seeing
\* the same action, or the reducer taking it.
HandedOn(k, evs) ==
  /\ k < Len(trace) /\ trace[k + 1].ev \in evs /\ trace[k + 1].action = trace[k].action

\* C16: fetcher calls caller for every FETCH it is given, with the args of the
\* action, and for no action of another type; a call that is pending has no
\* follow-up, a call that has settled has exactly one, which is dispatched:
\* SUCCESS with the data if it was fulfilled, FAILURE with the error if it
\* was rejected.
C16_OneFollowUp ==
  WithFetcher =>
    /\ Len(calls) = Cardinality(Seen("fetcher", {FETCH}))
    /\ Cardinality(Happened("call")) = Len(calls)
    /\ \A k \in Seen("fetcher", {FETCH}) :
         \E j \in Happened("call") :
           /\ k < j /\ trace[j].action = trace[k].action
           /\ \A i \in (k + 1)..(j - 1) : trace[i].ev \notin {"call", "external", "followup"}
    /\ \A c \in DOMAIN calls :
         /\ calls[c].args = trace[CallEvent(c)].action.args
         /\ calls[c].status = "pending" => FollowUps(c) = {}
         /\ calls[c].status # "pending" => Cardinality(FollowUps(c)) = 1
         /\ \A k \in FollowUps(c) :
              /\ HandedOn(k, {"see", "reduce"})
              /\ calls[c].status = "fulfilled" =>
                   trace[k].action = Action(SUCCESS, Undef, Val("data", c), Undef)
              /\ calls[c].status = "rejected" =>
                   trace[k].action = Action(FAILURE, Undef, Undef, Val("error", c))

C16_Witness ==
  /\ WithFetcher /\ hook.exposed
  /\ \E c, d \in DOMAIN calls :
       /\ calls[c].status = "fulfilled" /\ FollowUps(c) # {}
       /\ calls[d].status = "rejected" /\ FollowUps(d) # {}

LogRetryFetcher ==
  hook.status = "composed" /\ hook.nest = <<"logMiddleware", "retryMiddleware", "fetcher">>

\* C18: in logMiddleware(retryMiddleware(fetcher(caller)(dispatch))) the
\* follow-up of fetcher goes straight to the reducer; the two middleware see
\* no SUCCESS and no FAILURE, only the FETCH actions of the component are
\* logged, and no failure is retried: no RETRY is dispatched and caller is
\* called once for every FETCH of the component.
C18_ResponsesSkipMiddleware ==
  LogRetryFetcher =>
    /\ \A k \in Happened("followup") : HandedOn(k, {"reduce"})
    /\ Seen("logMiddleware", {SUCCESS, FAILURE}) = {}
    /\ Seen("retryMiddleware", {SUCCESS, FAILURE}) = {}
    /\ \A k \in Happened("log") : trace[k].action.type = FETCH
    /\ Cardinality(Happened("log")) = Cardinality(External)
    /\ \A k \in DOMAIN trace : trace[k].action.type # "RETRY"
    /\ Len(calls) = Cardinality(External)

C18_Witness ==
  /\ LogRetryFetcher
  /\ \E c \in DOMAIN calls : calls[c].status = "rejected" /\ FollowUps(c) # {}
  /\ \E c \in DOMAIN calls : calls[c].status = "fulfilled" /\ FollowUps(c) # {}

\* The hooks of useEnhancedReducer whose chain has been composed.
WithStore == hook.use = "useEnhancedReducer" /\ hook.status = "composed"

\* The events of the run that event k begins: up to the next action of the
\* component or follow-up of a call.
RunOf(k) ==
  {j \in DOMAIN trace :
     k <= j /\ \A i \in (k + 1)..j : trace[i].ev \notin {"external", "followup"}}

\* An action given to the dispatch of the store API at event j passes every
\* middleware of the chain on its way.
PassesChain(j) ==
  /\ trace[j].ev = "api"
  /\ HandedOn(j, {"see"})
  /\ \A m \in DOMAIN hook.nest :
       \E i \in RunOf(j) :
         /\ i > j /\ trace[i].ev = "see" /\ trace[i].who = hook.nest[m]
         /\ trace[i].action = trace[j].action

\* The request a FAILURE is the failure of.
FailedCall(action) == action.error.n

\* C19: the retryMiddleware of the store signature gives an action that is
\* no FAILURE to next and to nothing else; on a FAILURE it gives RETRY and
\* then a FETCH to the dispatch of the store API, both pass every middleware
\* of the chain, and the FETCH has the args of the request that failed.
C19_RetryThroughTop ==
  WithStore =>
    /\ \A k \in Seen("retryMiddleware_store", Types \ {FAILURE}) :
         HandedOn(k, {"see", "reduce"})
    /\ \A k \in Seen("retryMiddleware_store", {FAILURE}) :
         /\ k + 1 \in DOMAIN trace /\ trace[k + 1].action = RETRY /\ PassesChain(k + 1)
         /\ \E j \in RunOf(k) :
              /\ j > k + 1 /\ trace[j].action.type = FETCH /\ PassesChain(j)
              /\ \A i \in RunOf(k) : i > k /\ trace[i].ev = "api" => i \in {k + 1, j}
              /\ FailedCall(trace[k].action) \in DOMAIN calls =>
                   trace[j].action.args = calls[FailedCall(trace[k].action)].args

\* The hooks of useEnhancedReducer with the retryMiddleware of the store
\* signature in their chain.
WithRetry ==
  WithStore /\ \E m \in DOMAIN hook.nest : hook.nest[m] = "retryMiddleware_store"

\* C25: with the retryMiddleware of the store signature in the chain, no
\* FAILURE reaches the reducer: the retry gives the dispatch of the store API
\* a RETRY and then a FETCH in its place, and the error of the state is the
\* error of the initial state in every state reached.
C25_NoFailureReduced ==
  WithRetry =>
    /\ \A k \in Happened("reduce") : trace[k].action.type # FAILURE
    /\ \A k \in Seen("retryMiddleware_store", {FAILURE}) :
         /\ k + 1 \in DOMAIN trace
         /\ trace[k + 1].ev = "api" /\ trace[k + 1].action = RETRY
         /\ \E j \in RunOf(k) :
              j > k + 1 /\ trace[j].ev = "api" /\ trace[j].action.type = FETCH
    /\ state.error = INITIAL_STATE.error

C25_Witness ==
  /\ WithRetry
  /\ \E c \in DOMAIN calls : calls[c].status = "rejected" /\ FollowUps(c) # {}
  /\ \E c \in DOMAIN calls : calls[c].status = "fulfilled" /\ FollowUps(c) # {}
  /\ Seen("retryMiddleware_store", {FAILURE}) # {}

\* The middleware of the hook that dispatch while the chain is constructed.
Eager ==
  {k \in DOMAIN hook.middleware :
     hook.middleware[k] \in {"eagerMiddleware_store", "eagerMiddleware_next"}}

\* C20: a middleware that calls the dispatch of the store API while
\* applyMiddleware constructs the chain gets an Error, the hook has no
\* dispatch function and no action has reached the reducer; in a chain that
\* has been composed, an action given to the dispatch of the store API enters
\* the chain at its outermost middleware.
C20_NoDispatchWhileConstructing ==
  /\ hook.use = "useEnhancedReducer" /\ hook.status # "none" /\ Eager # {} =>
       /\ hook.status = "threw"
       /\ Happened("reduce") = {}
       /\ state = INITIAL_STATE
       /\ Len(trace) = 2 /\ trace[1].ev = "api" /\ trace[1].action = INIT
       /\ trace[2].ev = "throw" /\ trace[2].action.type = "Error"
  /\ WithStore =>
       \A j \in Happened("api") :
         /\ HandedOn(j, {"see"}) /\ trace[j + 1].who = hook.nest[1]
         /\ trace[j].action = RETRY => PassesChain(j)

C20_Witness ==
  /\ hook.use = "useEnhancedReducer" /\ hook.status = "threw"
  /\ hook.middleware[2] = "eagerMiddleware_store"

\* C23: in every state that useApiState with the fetch function reaches,
\* however the FETCH actions of the component and the settlements of the
\* calls of caller interleave, error is null or data is null.
C23_ErrorOrData ==
  WithFetcher => state.error = Null \/ state.data = Null

\* Two requests overlap: the component's second FETCH has made its call of
\* caller before the first call has a follow-up.
Overlapping ==
  /\ WithFetcher /\ Len(calls) = 2
  /\ \A k \in FollowUps(1) : CallEvent(2) < k

Pending == {c \in DOMAIN calls : calls[c].status = "pending"}

\* C24: of two overlapping requests, once both calls have settled the state
\* has the result of the second: its data if the call was fulfilled, its
\* error if it was rejected, in whichever order the calls settled; and
\* loading is false only when no call is pending.
C24_LatestWins ==
  Overlapping =>
    /\ Pending = {} /\ calls[2].status = "fulfilled" => state.data = Val("data", 2)
    /\ Pending = {} /\ calls[2].status = "rejected" => state.error = Val("error", 2)
    /\ ~state.loading => Pending = {}

\* ---------------------------------------------------- the claims (reducer)
ReducerCalled(types) == last.fn = "reducer" /\ last.props.action.type \in types

\* C21: from every state a FETCH makes the reducer return exactly { error:
\* null, loading: true, data: null }, whatever data and error the state had,
\* and with an action of a type that is not FETCH, FAILURE or SUCCESS the
\* reducer returns the state it was given.
C21_FetchClears ==
  /\ ReducerCalled({FETCH}) =>
       last.result = [error |-> Null, loading |-> TRUE, data |-> Null]
  /\ last.fn = "reducer" /\ last.props.action.type \notin {FETCH, FAILURE, SUCCESS} =>
       last.result = last.props.state

C21_Witness ==
  /\ ReducerCalled({FETCH})
  /\ last.props.rev = "part_003"
  /\ last.props.state.data # Null /\ last.props.state.error # Null
  /\ ~last.props.state.loading

\* C22: after SUCCESS the state has loading false and the data of the
\* action, after FAILURE it has loading false and the error of the action,
\* whether or not the state before was loading.
C22_ResponsesEndLoading ==
  /\ ReducerCalled({SUCCESS}) =>
       /\ last.result.loading = FALSE
       /\ last.result.data = last.props.action.data
  /\ ReducerCalled({FAILURE}) =>
       /\ last.result.loading = FALSE
       /\ last.result.error = last.props.action.error

C22_Witness ==
  /\ ReducerCalled({FAILURE})
  /\ last.props.rev = "use-api-state.md"
  /\ last.props.state.loading /\ last.props.action.error = Val("error", 2)
  /\ last.props.state.data # Null

\* ------------------------------------------------------- the claims (pipe)
\* pn(...(p2(p1(src)))): the procedures around src, the last one outermost.
Nested(src, procs) == [i \in 1..Len(procs) |-> procs[Len(procs) + 1 - i]] \o src

\* The function that sees an action first when it is given to a dispatch
\* function.
SeesFirst(nest, action) ==
  Through([NoHook EXCEPT !.nest = nest, !.status = "composed"], 1, action, Run).trace[1].who

\* C26: pipe(src, p1, ..., pn) returns pn(...(p2(p1(src)))), every procedure
\* applied once and from left to right, and src itself when there is no
\* procedure; when src is a dispatch function, the last middleware listed is
\* the outermost of the result and the first to see an action.
C26_PipeLeftToRight ==
  last.fn = "pipe" =>
    /\ last.result = Return(Nested(last.props.src, last.props.procs))
    /\ last.props.procs = <<>> => last.result = Return(last.props.src)
    /\ last.props.procs # <<>> =>
         /\ Head(last.result.out) = last.props.procs[Len(last.props.procs)]
         /\ \A action \in FetchActions :
              SeesFirst(last.result.out, action) = last.props.procs[Len(last.props.procs)]

\* ---------------------------------------------- the claims (template calls)
SameCall == first.fn # "none" /\ first.fn = last.fn /\ first.props = last.props
YearOf(date) == CivilFromDays(date.day).year

EndsInDotHtml(str) ==
  LET n == Len(str)
  IN n >= 5 /\ str[n - 4] = "." /\ str[n - 3] = "h" /\ str[n - 2] = "t"
     /\ str[n - 1] = "m" /\ str[n] = "l"

\* C10: for an output path that ends in ".html" the transform returns the
\* minified content, for every other output path the content unchanged.
C10_MinifiesHtmlOnly ==
  transformed.fn = "htmlmin" /\ "str" \in DOMAIN transformed.outputPath =>
    /\ transformed.result.err = "none"
    /\ transformed.result.out =
         IF EndsInDotHtml(transformed.outputPath.str)
         THEN SelectSeq(transformed.content,
                        LAMBDA tok : ~IsWhitespace(tok) /\ ~IsComment(tok))
         ELSE transformed.content

\* C14: the transform does not throw, whatever output path it is called
\* with, and for the output path false it returns the content unchanged.
C14_NeverRaises ==
  transformed.fn = "htmlmin" =>
    /\ transformed.result.err = "none"
    /\ "false" \in DOMAIN transformed.outputPath
         => transformed.result.out = transformed.content

C10_Witness ==
  /\ transformed.fn = "htmlmin" /\ "str" \in DOMAIN transformed.outputPath
  /\ EndsInDotHtml(transformed.outputPath.str)
  /\ transformed.result.out # transformed.content

====
